---- MODULE Spec2Model ----
(***************************************************************************)
(* A model of MIDI-Launcher (midi_launcher.py): the numeric-set parser     *)
(* parse_user_input, the construction of Command objects from the entries  *)
(* of the configuration file, and the polling loop of MIDILauncher.run     *)
(* that hands every pending MIDI message to every Command in turn.         *)
(*                                                                         *)
(* Python strings are sequences of one-character strings, so that          *)
(* splitting, regular-expression matching, int(), lower() and the          *)
(* substring test are computed character by character as the code does.    *)
(***************************************************************************)
EXTENDS Integers, Sequences, FiniteSets, TLC

VARIABLES
    user_input,      \* parse_user_input: the argument user_input
    default_range,   \* parse_user_input: the argument default_range
    parse_pc,        \* "call" before the call, "returned" or "raised" after it
    parse_ret,       \* what the call produced (ParseUserInput's record)
    rule_config,     \* one entry of the "commands" array of the configuration
    rule,            \* the Command object built from it
    rule_pc,         \* "new" before Command(cmd), "built" or "raised" after it,
                     \* "executed" after the call of rule.execute
    rule_message,    \* the arguments of the last call of rule.execute
    rule_outcome,    \* how that call ended (Execute's record)
    config,          \* the "commands" array of the configuration file
    ignore_clock,    \* MIDILauncher.ignore_clock
    input_names,     \* what mido.get_input_names() returns: the attached ports
    now,             \* time.time(), in seconds since the program started
    pc,              \* where the program is: "start", then in run() "top",
                     \* "poll", "exec", "sleep"; "exited" after sys.exit,
                     \* "crashed" after an exception nothing caught
    commands,        \* MIDILauncher.commands
    open_ports,      \* MIDILauncher.open_ports: the names of the open ports
    pending,         \* per open port, the messages iter_pending() will yield
    last_update,     \* run(): last_update
    port_idx,        \* run(): the port of `for port in self.open_ports`
    message,         \* run(): the message of `for message in ...`
    cmd_idx,         \* run(): the command of `for command in self.commands`
    sent,            \* the messages the devices have sent, with their ports
    calls,           \* every call of Command.execute so far, in order
    completed,       \* how many of the launched commands have ended
    check_times,     \* when mido.get_input_names() was called in run(): the
                     \* time of the call before the last one and of the last
                     \* one (-1: no such call)
    last_iteration,  \* how the last iteration of the while loop ended:
                     \* "slept" at line 383, "skipped" by `continue`
    payload_in,      \* execute, lines 483-490: self.command, value, self.mapping
    payload_pc,      \* "matched" before line 483, "done" after line 490
    payload_out      \* execute, lines 483-490: percentage, decimal, command

parse_vars == <<user_input, default_range, parse_pc, parse_ret>>

rule_vars == <<rule_config, rule, rule_pc, rule_message, rule_outcome>>

env_vars == <<config, ignore_clock, input_names, now, sent>>

run_vars == <<pc, commands, open_ports, pending, last_update, port_idx, message,
              cmd_idx, calls, completed, check_times, last_iteration>>

launcher_vars == <<env_vars, run_vars>>

payload_vars == <<payload_in, payload_pc, payload_out>>

vars == <<parse_vars, rule_vars, launcher_vars, payload_vars>>

----------------------------------------------------------------------------
(* Bounds of the model.                                                    *)

\* longest single token given to parse_user_input
MaxLen == 6
\* longest run of digits in such a token
MaxDigits == 2
\* most tables in the "commands" array of the configuration file
MaxRules == 2
\* most messages the devices send in one run
MaxEvents == 2
\* the run is followed for this many seconds
MaxTime == 6

----------------------------------------------------------------------------
(* Python values as they come out of the TOML file: every value has the    *)
(* same fields so that values of different types can be compared.          *)

VNone == [t |-> "none", n |-> 0, s |-> <<>>, l |-> <<>>, q |-> <<>>]
VInt(k) == [t |-> "int", n |-> k, s |-> <<>>, l |-> <<>>, q |-> <<>>]
VStr(str) == [t |-> "str", n |-> 0, s |-> str, l |-> <<>>, q |-> <<>>]
VList(items) == [t |-> "list", n |-> 0, s |-> <<>>, l |-> items, q |-> <<>>]
VFloat(k) == [t |-> "float", n |-> k, s |-> <<>>, l |-> <<>>, q |-> <<>>]
VBool(b) == [t |-> "bool", n |-> IF b THEN 1 ELSE 0, s |-> <<>>, l |-> <<>>, q |-> <<>>]
\* a list of ints as parse_user_input returns it, its items in q
VInts(q) == [t |-> "ints", n |-> 0, s |-> <<>>, l |-> <<>>, q |-> q]

----------------------------------------------------------------------------
(* Characters and the string primitives of Python the code relies on.      *)

Digits == {"0", "1", "2", "3", "4", "5", "6", "7", "8", "9"}

IsDigit(c) == c \in Digits

IsSpace(c) == c \in {" ", "\t", "\n"}

DigitVal(c) ==
    CASE c = "0" -> 0 [] c = "1" -> 1 [] c = "2" -> 2 [] c = "3" -> 3
      [] c = "4" -> 4 [] c = "5" -> 5 [] c = "6" -> 6 [] c = "7" -> 7
      [] c = "8" -> 8 [] c = "9" -> 9

DigitChar(d) ==
    CASE d = 0 -> "0" [] d = 1 -> "1" [] d = 2 -> "2" [] d = 3 -> "3"
      [] d = 4 -> "4" [] d = 5 -> "5" [] d = 6 -> "6" [] d = 7 -> "7"
      [] d = 8 -> "8" [] d = 9 -> "9"

\* the value of a non-empty sequence of decimal digits
RECURSIVE DigitsValue(_)
DigitsValue(s) ==
    IF s = <<>> THEN 0
    ELSE DigitsValue(SubSeq(s, 1, Len(s) - 1)) * 10 + DigitVal(s[Len(s)])

\* str.isdigit(): non-empty and every character a digit
IsDigitStr(s) == s # <<>> /\ \A i \in 1..Len(s) : IsDigit(s[i])

\* int(s) of a string: an optional sign and at least one digit, else ValueError
IntOf(s) ==
    LET signed == s # <<>> /\ s[1] \in {"-", "+"}
        body == IF signed THEN SubSeq(s, 2, Len(s)) ELSE s
    IN  IF IsDigitStr(body)
        THEN [ok |-> TRUE,
              v |-> IF signed /\ s[1] = "-" THEN 0 - DigitsValue(body)
                    ELSE DigitsValue(body)]
        ELSE [ok |-> FALSE, v |-> 0]

\* str(n) of an integer
RECURSIVE NatStr(_)
NatStr(n) ==
    IF n < 10 THEN <<DigitChar(n)>>
    ELSE NatStr(n \div 10) \o <<DigitChar(n % 10)>>

IntStr(n) == IF n < 0 THEN <<"-">> \o NatStr(0 - n) ELSE NatStr(n)

\* list(range(a, b, k)) for k # 0
PyRange(a, b, k) ==
    LET n == IF k > 0
             THEN (IF b > a THEN (b - a + k - 1) \div k ELSE 0)
             ELSE (IF a > b THEN (a - b + (0 - k) - 1) \div (0 - k) ELSE 0)
    IN  [i \in 1..n |-> a + (i - 1) * k]

\* x in s, for a character x and a string s
CharIn(x, s) == \E i \in 1..Len(s) : s[i] = x

\* s.split(sep) for a one-character separator
RECURSIVE SplitChar(_, _)
SplitChar(s, sep) ==
    IF ~CharIn(sep, s) THEN <<s>>
    ELSE LET i == CHOOSE j \in 1..Len(s) :
                      s[j] = sep /\ \A h \in 1..(j - 1) : s[h] # sep
         IN  <<SubSeq(s, 1, i - 1)>> \o SplitChar(SubSeq(s, i + 1, Len(s)), sep)

----------------------------------------------------------------------------
(* re.split(r',\s*|\s+', user_input)                                       *)

\* the first position at or after i that holds no whitespace
RECURSIVE SkipSpace(_, _)
SkipSpace(s, i) ==
    IF i <= Len(s) /\ IsSpace(s[i]) THEN SkipSpace(s, i + 1) ELSE i

\* the items between the separators, from position i on, cur being the
\* item collected so far
RECURSIVE SplitFrom(_, _, _)
SplitFrom(s, i, cur) ==
    IF i > Len(s) THEN <<cur>>
    ELSE IF s[i] = "," THEN <<cur>> \o SplitFrom(s, SkipSpace(s, i + 1), <<>>)
    ELSE IF IsSpace(s[i]) THEN <<cur>> \o SplitFrom(s, SkipSpace(s, i), <<>>)
    ELSE SplitFrom(s, i + 1, Append(cur, s[i]))

SplitItems(s) == SplitFrom(s, 1, <<>>)

----------------------------------------------------------------------------
(* pattern.match(user_input.lower()) for the pattern                       *)
(*   (?P<start>-?\d+)\s*:\s*(?P<end>-?\d+)\s*(:\s*(?P<step>-?\d+))?        *)
(* match() anchors the pattern at the start of the string only: what       *)
(* follows the matched prefix is not looked at.                            *)

\* the first position at or after i that holds no digit
RECURSIVE SkipDigits(_, _)
SkipDigits(s, i) ==
    IF i <= Len(s) /\ IsDigit(s[i]) THEN SkipDigits(s, i + 1) ELSE i

\* -?\d+ at position i: the group's text and the position after it
ScanInt(s, i) ==
    LET d == IF i <= Len(s) /\ s[i] = "-" THEN i + 1 ELSE i
        e == SkipDigits(s, d)
    IN  [ok |-> e > d, next |-> e, text |-> SubSeq(s, i, e - 1)]

NoMatch == [ok |-> FALSE, start |-> <<>>, end |-> <<>>,
            hasStep |-> FALSE, step |-> <<>>]

MatchRange(s) ==
    LET a == ScanInt(s, 1)
        p1 == SkipSpace(s, a.next)
        b == ScanInt(s, SkipSpace(s, p1 + 1))
        p3 == SkipSpace(s, b.next)
        c == ScanInt(s, SkipSpace(s, p3 + 1))
        stepped == p3 <= Len(s) /\ s[p3] = ":" /\ c.ok
    IN  IF ~a.ok \/ p1 > Len(s) THEN NoMatch
        ELSE IF s[p1] # ":" \/ ~b.ok THEN NoMatch
        ELSE [ok |-> TRUE, start |-> a.text, end |-> b.text,
              hasStep |-> stepped, step |-> IF stepped THEN c.text ELSE <<>>]

----------------------------------------------------------------------------
(* parse_user_input.  The result is a record: the returned list, the       *)
(* number of error diagnostics and of warning diagnostics given to         *)
(* print_error and print_warning (the header_text lines not counted), and  *)
(* the exception that left the function ("none" when it returned).         *)

Ret(list, e, w) == [result |-> list, errors |-> e, warnings |-> w, raised |-> "none"]

Raise(exc, e, w) == [result |-> <<>>, errors |-> e, warnings |-> w, raised |-> exc]

\* the test `x < default_range[0] or x > default_range[1]`
OutOfRange(lo, hi, dr) == lo < dr[1] \/ hi > dr[2]

\* line 199, `step == 0`: step is the matched text (a str), or the int 1
\* when the group is absent; a str never equals the int 0
StepEqualsZero(m) == IF m.hasStep THEN FALSE ELSE 1 = 0

\* ColonRange with the end of the range left out
ColonRangeEndExcluded(m, dr) ==
    LET start == IntOf(m.start).v
        end == IntOf(m.end).v
        step == IF m.hasStep THEN IntOf(m.step).v ELSE 1
        first == IF step < 0 THEN end ELSE start
        last == IF step < 0 THEN start ELSE end
        w == IF OutOfRange(first, last, dr) THEN 1 ELSE 0
    IN  IF StepEqualsZero(m) THEN Ret(<<>>, 1, 0)
        ELSE IF start > end THEN Ret(<<>>, 1, 0)
        ELSE IF step = 0 THEN Raise("ValueError", 0, w)
        ELSE Ret(PyRange(first, last, step), 0, w)

\* lines 192-216: the colon range, m being the match
ColonRange(m, dr) ==
    LET start == IntOf(m.start).v
        end == IntOf(m.end).v
        step == IF m.hasStep THEN IntOf(m.step).v ELSE 1
        first == IF step < 0 THEN end ELSE start
        last == IF step < 0 THEN start ELSE end
        w == IF OutOfRange(first, last, dr) THEN 1 ELSE 0
    IN  IF StepEqualsZero(m) THEN Ret(<<>>, 1, 0)
        ELSE IF start > end THEN Ret(<<>>, 1, 0)
        ELSE IF step = 0 THEN Raise("ValueError", 0, w)
        ELSE Ret(PyRange(first, last + 1, step), 0, w)

\* SeparatorRange with the end of the range left out
SeparatorRangeEndExcluded(s, dr, sep) ==
    LET parts == SplitChar(s, sep)
        start == IntOf(parts[1])
        end == IntOf(parts[2])
    IN  IF Len(parts) # 2 THEN Ret(<<>>, 1, 0)
        ELSE IF ~start.ok \/ ~end.ok THEN Ret(<<>>, 1, 0)
        ELSE IF start.v > end.v THEN Ret(<<>>, 1, 0)
        ELSE Ret(PyRange(start.v, end.v, 1), 0,
                 IF OutOfRange(start.v, end.v, dr) THEN 1 ELSE 0)

\* lines 220-238: the range written with the separator
SeparatorRange(s, dr, sep) ==
    LET parts == SplitChar(s, sep)
        start == IntOf(parts[1])
        end == IntOf(parts[2])
    IN  IF Len(parts) # 2 THEN Ret(<<>>, 1, 0)
        ELSE IF ~start.ok \/ ~end.ok THEN Ret(<<>>, 1, 0)
        ELSE IF start.v > end.v THEN Ret(<<>>, 1, 0)
        ELSE Ret(PyRange(start.v, end.v + 1, 1), 0,
                 IF OutOfRange(start.v, end.v, dr) THEN 1 ELSE 0)

\* lines 179-243: a string that re.split leaves in one piece
ParseToken(s, dr, sep) ==
    IF IsDigitStr(s)
    THEN Ret(<<DigitsValue(s)>>, 0,
             IF OutOfRange(DigitsValue(s), DigitsValue(s), dr) THEN 1 ELSE 0)
    ELSE IF MatchRange(s).ok THEN ColonRange(MatchRange(s), dr)
    ELSE IF CharIn(sep, s) THEN SeparatorRange(s, dr, sep)
    ELSE Ret(<<>>, 1, 0)

S_all == <<"a", "l", "l">>

\* the keyword with the last number of the default range left out
AllNumbersEndExcluded(dr) == PyRange(dr[1], dr[2], 1)

\* line 166: list(range(default_range[0], default_range[1] + 1))
AllNumbers(dr) == PyRange(dr[1], dr[2] + 1, 1)

RECURSIVE ParseUserInput(_, _, _)
\* ParseItems with what an item gives put before what the items before it
\* gave
RECURSIVE ParseItemsReversed(_, _, _, _, _)
ParseItemsReversed(items, i, acc, dr, sep) ==
    IF i > Len(items) THEN acc
    ELSE LET it == items[i]
             r == IF it.t = "int"
                  THEN Ret(<<it.n>>, 0, IF OutOfRange(it.n, it.n, dr) THEN 1 ELSE 0)
                  ELSE IF it.t \in {"str", "list"} THEN ParseUserInput(it, dr, sep)
                  ELSE Ret(<<>>, 0, 0)
         IN  IF r.raised # "none"
             THEN Raise(r.raised, acc.errors + r.errors, acc.warnings + r.warnings)
             ELSE ParseItemsReversed(items, i + 1,
                                     Ret(r.result \o acc.result, acc.errors + r.errors,
                                         acc.warnings + r.warnings),
                                     dr, sep)

\* lines 172-177 and 248-260: the loop over the items, from item i on, acc
\* being what the items before it produced; an exception ends the loop
RECURSIVE ParseItems(_, _, _, _, _)
ParseItems(items, i, acc, dr, sep) ==
    IF i > Len(items) THEN acc
    ELSE LET it == items[i]
             r == IF it.t = "int"
                  THEN Ret(<<it.n>>, 0, IF OutOfRange(it.n, it.n, dr) THEN 1 ELSE 0)
                  ELSE IF it.t \in {"str", "list"} THEN ParseUserInput(it, dr, sep)
                  ELSE Ret(<<>>, 0, 0)
         IN  IF r.raised # "none"
             THEN Raise(r.raised, acc.errors + r.errors, acc.warnings + r.warnings)
             ELSE ParseItems(items, i + 1,
                             Ret(acc.result \o r.result, acc.errors + r.errors,
                                 acc.warnings + r.warnings),
                             dr, sep)

ParseUserInput(x, dr, sep) ==
    IF x.t \notin {"int", "str", "list"} THEN Ret(<<>>, 1, 0)
    ELSE IF x.t = "int"
    THEN Ret(<<x.n>>, 0, IF OutOfRange(x.n, x.n, dr) THEN 1 ELSE 0)
    ELSE IF x.t = "str"
    THEN IF x.s = <<>> THEN Ret(<<>>, 0, 0)
         ELSE IF x.s = S_all THEN Ret(AllNumbers(dr), 0, 0)
         ELSE LET items == SplitItems(x.s)
              IN  IF Len(items) > 1
                  THEN ParseItems([i \in 1..Len(items) |-> VStr(items[i])], 1,
                                  Ret(<<>>, 0, 0), dr, sep)
                  ELSE ParseToken(x.s, dr, sep)
    ELSE ParseItems(x.l, 1, Ret(<<>>, 0, 0), dr, sep)

----------------------------------------------------------------------------
(* More of Python's strings: lower(), the substring test, replace(),       *)
(* float() and str() of a float rounded to two places.                     *)

UpperCase == <<"A", "B", "C", "D", "E", "F", "G", "H", "I", "J", "K", "L", "M",
               "N", "O", "P", "Q", "R", "S", "T", "U", "V", "W", "X", "Y", "Z">>

LowerCase == <<"a", "b", "c", "d", "e", "f", "g", "h", "i", "j", "k", "l", "m",
               "n", "o", "p", "q", "r", "s", "t", "u", "v", "w", "x", "y", "z">>

LowerChar(c) ==
    IF \E i \in 1..Len(UpperCase) : UpperCase[i] = c
    THEN LowerCase[CHOOSE i \in 1..Len(UpperCase) : UpperCase[i] = c]
    ELSE c

\* s.lower()
Lower(s) == [i \in 1..Len(s) |-> LowerChar(s[i])]

\* whether sub occurs in s at position i
OccursAt(sub, s, i) ==
    i + Len(sub) - 1 <= Len(s) /\ SubSeq(s, i, i + Len(sub) - 1) = sub

\* sub in s, for two strings
Contains(s, sub) == \E i \in 1..(Len(s) + 1) : OccursAt(sub, s, i)

\* s.replace(old, new) for a non-empty old: left to right, non-overlapping
RECURSIVE ReplaceFrom(_, _, _, _)
ReplaceFrom(s, i, old, new) ==
    IF i > Len(s) THEN <<>>
    ELSE IF OccursAt(old, s, i) THEN new \o ReplaceFrom(s, i + Len(old), old, new)
    ELSE <<s[i]>> \o ReplaceFrom(s, i + 1, old, new)

Replace(s, old, new) == ReplaceFrom(s, 1, old, new)

\* s.strip() of blanks
RECURSIVE Strip(_)
Strip(s) ==
    IF s # <<>> /\ IsSpace(s[1]) THEN Strip(Tail(s))
    ELSE IF s # <<>> /\ IsSpace(s[Len(s)]) THEN Strip(SubSeq(s, 1, Len(s) - 1))
    ELSE s

\* float(s) for the literals of whole numbers (blanks around them allowed);
\* every other string of the model's alphabet is a ValueError
FloatOf(s) == IntOf(Strip(s))

\* round(x, 2), in hundredths, for the float x = num / 127: the nearest
\* hundredth (there is never a tie: 127 is odd)
Hundredths(num) == (200 * num + 127) \div 254

\* str(round(x, 2)) for the float x = num / 127: h is x rounded to the
\* nearest hundredth (there is never a tie: 127 is odd)
DecimalStr(num) ==
    LET h == Hundredths(num)
        a == IF h < 0 THEN 0 - h ELSE h
        frac == a % 100
        sign == IF h < 0 \/ (h = 0 /\ num < 0) THEN <<"-">> ELSE <<>>
    IN  sign \o NatStr(a \div 100) \o <<".">> \o
            (IF frac % 10 = 0 THEN <<DigitChar(frac \div 10)>>
             ELSE <<DigitChar(frac \div 10), DigitChar(frac % 10)>>)

----------------------------------------------------------------------------
(* The Command class.                                                      *)

S_note_on == <<"n", "o", "t", "e", "_", "o", "n">>
S_note_off == <<"n", "o", "t", "e", "_", "o", "f", "f">>
S_control_change == <<"c", "o", "n", "t", "r", "o", "l", "_", "c", "h", "a", "n", "g", "e">>
S_None == <<"N", "o", "n", "e">>
S_VELOCITY == <<"$", "V", "E", "L", "O", "C", "I", "T", "Y">>
S_VALUE == <<"$", "V", "A", "L", "U", "E">>
S_PERCENTAGE == <<"$", "P", "E", "R", "C", "E", "N", "T", "A", "G", "E">>
S_DECIMAL == <<"$", "D", "E", "C", "I", "M", "A", "L">>

\* the event types Command.__init__ accepts, line 415
ValidEvents == {S_note_on, S_note_off, S_control_change}

\* config.get(key, default): a key the TOML table lacks is VNone in the model
Get(cfg, key, default) == IF cfg[key] = VNone THEN default ELSE cfg[key]

\* str(self.event), for the types an event field is given in the model
StrOf(v) == IF v.t = "str" THEN v.s ELSE IF v.t = "int" THEN IntStr(v.n) ELSE S_None

\* bool(v)
Truthy(v) ==
    CASE v.t = "bool" -> v.n = 1
      [] v.t = "int" -> v.n # 0
      [] v.t = "str" -> v.s # <<>>
      [] v.t = "list" -> v.l # <<>>
      [] v.t = "none" -> FALSE
      [] OTHER -> v.n # 0

\* the value a parse_* method stores after parse_user_input returned
Parsed(v, dr) == VInts(ParseUserInput(v, dr, "-").result)

ParseRaised(v, dr) == ParseUserInput(v, dr, "-").raised

DefaultMapping == VList(<<VInt(0), VInt(127)>>)

\* parse_mapping, lines 508-540
ParseMapping(mapping) ==
    IF mapping.t = "list"
    THEN (IF Len(mapping.l) = 2 THEN mapping ELSE DefaultMapping)
    ELSE IF mapping.t = "str"
    THEN IF mapping.s = S_all THEN DefaultMapping
         ELSE LET parts == SplitChar(mapping.s, ",")
              IN  IF \E i \in 1..Len(parts) : ~FloatOf(parts[i]).ok
                  THEN mapping
                  ELSE IF Len(parts) # 2 THEN DefaultMapping
                  ELSE VList([i \in 1..2 |-> VFloat(FloatOf(parts[i]).v)])
    ELSE mapping

\* parse_ports, lines 548-565; port.lower() of an item that is no string
\* is an AttributeError
ParsePortsRaised(ports) ==
    IF ports.t = "list" /\ \E i \in 1..Len(ports.l) : ports.l[i].t # "str"
    THEN "AttributeError" ELSE "none"

ParsePorts(ports) ==
    IF ports.t = "str" THEN VList(<<VStr(Lower(ports.s))>>)
    ELSE IF ports.t = "list"
    THEN VList([i \in 1..Len(ports.l) |-> VStr(Lower(ports.l[i].s))])
    ELSE ports

\* lines 396-406: the fields as read from the configuration entry
RawCommand(cfg) ==
    [active |-> Truthy(Get(cfg, "active", VBool(TRUE))),
     channels |-> Get(cfg, "channels", VStr(S_all)),
     command |-> cfg.command,
     control |-> Get(cfg, "control", VStr(S_all)),
     event |-> cfg.event,
     mapping |-> Get(cfg, "mapping", DefaultMapping),
     name |-> cfg.name,
     note |-> Get(cfg, "note", VStr(S_all)),
     ports |-> Get(cfg, "ports", VStr(S_all)),
     values |-> Get(cfg, "values", VStr(S_all)),
     velocities |-> Get(cfg, "velocities", VStr(S_all))]

\* EventAccepted with every event type let through
EventAcceptedAlways(event) == Lower(StrOf(event)) = Lower(StrOf(event))

\* line 415: the event type is one of the three, compared in lower case
EventAccepted(event) == Lower(StrOf(event)) \in ValidEvents

\* lines 420-426: the first exception among the parse_* calls, in call order
FirstRaised(excs) ==
    IF \A i \in 1..Len(excs) : excs[i] = "none" THEN "none"
    ELSE excs[CHOOSE i \in 1..Len(excs) :
                  excs[i] # "none" /\ \A j \in 1..(i - 1) : excs[j] = "none"]

\* Command.__init__: the object, and the exception that left the
\* constructor ("none" when it returned)
CommandInit(cfg) ==
    LET raw == RawCommand(cfg)
        raised == FirstRaised(<<ParseRaised(raw.channels, <<1, 16>>),
                                ParseRaised(raw.control, <<0, 127>>),
                                ParseRaised(raw.note, <<0, 127>>),
                                ParsePortsRaised(raw.ports),
                                ParseRaised(raw.values, <<0, 127>>),
                                ParseRaised(raw.velocities, <<0, 127>>)>>)
    IN  IF ~EventAccepted(raw.event)
        THEN [cmd |-> [raw EXCEPT !.active = FALSE], raised |-> "none"]
        ELSE IF raised # "none" THEN [cmd |-> raw, raised |-> raised]
        ELSE [cmd |-> [raw EXCEPT
                         !.channels = Parsed(raw.channels, <<1, 16>>),
                         !.control = Parsed(raw.control, <<0, 127>>),
                         !.mapping = ParseMapping(raw.mapping),
                         !.note = Parsed(raw.note, <<0, 127>>),
                         !.ports = ParsePorts(raw.ports),
                         !.values = Parsed(raw.values, <<0, 127>>),
                         !.velocities = Parsed(raw.velocities, <<0, 127>>)],
              raised |-> "none"]

\* x in lst, for an int x and a list parse_user_input returned
InList(x, lst) == \E i \in 1..Len(lst.q) : lst.q[i] = x

\* lines 450-451: the port test; self.ports is a list of strings here
PortMismatch(cmd, port_name) ==
    /\ cmd.ports # VList(<<VStr(S_all)>>)
    /\ ~\E i \in 1..Len(cmd.ports.l) : Contains(Lower(port_name), cmd.ports.l[i].s)

IsNumber(v) == v.t \in {"int", "float"}

\* line 484: the exception the arithmetic on self.mapping raises, if any
MappingRaised(mapping) ==
    IF mapping.t = "list"
    THEN (IF Len(mapping.l) = 2 /\ IsNumber(mapping.l[1]) /\ IsNumber(mapping.l[2])
          THEN "none"
          ELSE IF Len(mapping.l) < 2 THEN "IndexError" ELSE "TypeError")
    ELSE IF mapping.t = "str"
    THEN (IF Len(mapping.s) < 2 THEN "IndexError" ELSE "TypeError")
    ELSE "TypeError"

\* the percentage rounded down
PercentageRoundedDown(value) == (100 * value) \div 127

\* line 483
Percentage(value) == (200 * value + 127) \div 254

\* line 484 followed by str(): num / 127 is the value before rounding
DecimalOf(mapping, value) ==
    DecimalStr(127 * mapping.l[1].n + value * (mapping.l[2].n - mapping.l[1].n))

\* the substitution without the placeholder $VELOCITY
SubstituteValueOnly(template, mapping, value) ==
    Replace(Replace(Replace(template,
        S_VALUE, IntStr(value)),
        S_PERCENTAGE, IntStr(Percentage(value))),
        S_DECIMAL, DecimalOf(mapping, value))

\* line 484, in hundredths
DecimalHundredths(mapping, value) ==
    Hundredths(127 * mapping.l[1].n + value * (mapping.l[2].n - mapping.l[1].n))

\* lines 487-490
Substitute(template, mapping, value) ==
    Replace(Replace(Replace(Replace(template,
        S_VELOCITY, IntStr(value)),
        S_VALUE, IntStr(value)),
        S_PERCENTAGE, IntStr(Percentage(value))),
        S_DECIMAL, DecimalOf(mapping, value))

Outcome(how, exc, value, text) ==
    [how |-> how, raised |-> exc, value |-> value, command |-> text]

\* lines 462-495, once the type, the port and the channel matched
ExecuteMatched(cmd, msg) ==
    LET notes == cmd.event.s \in {S_note_on, S_note_off}
        control == cmd.event.s = S_control_change
        value == IF notes THEN msg.velocity
                 ELSE IF control THEN msg.value ELSE 0
    IN  IF notes /\ cmd.note # VStr(S_all) /\ ~InList(msg.note, cmd.note)
        THEN Outcome("note", "none", 0, <<>>)
        ELSE IF notes /\ ~InList(msg.velocity, cmd.velocities)
        THEN Outcome("velocity", "none", 0, <<>>)
        ELSE IF control /\ ~InList(msg.control, cmd.control)
        THEN Outcome("control", "none", 0, <<>>)
        ELSE IF control /\ ~InList(msg.value, cmd.values)
        THEN Outcome("value", "none", 0, <<>>)
        ELSE IF MappingRaised(cmd.mapping) # "none"
        THEN Outcome("raised", MappingRaised(cmd.mapping), value, <<>>)
        ELSE IF cmd.command.t # "str"
        THEN Outcome("raised", "AttributeError", value, <<>>)
        ELSE Outcome("dispatch", "none", value,
                     Substitute(cmd.command.s, cmd.mapping, value))

\* Command.execute(message, port_name), lines 429-495: how the call ended ("dispatch" when
\* subprocess.run was called, "raised" when an exception left it, else the
\* test that made it return), the derived value and the command launched
Execute(cmd, msg, port_name) ==
    IF ~cmd.active THEN Outcome("inactive", "none", 0, <<>>)
    ELSE IF cmd.event # VStr(msg.type) THEN Outcome("type", "none", 0, <<>>)
    ELSE IF cmd.ports.t # "list" THEN Outcome("raised", "TypeError", 0, <<>>)
    ELSE IF PortMismatch(cmd, port_name) THEN Outcome("port", "none", 0, <<>>)
    ELSE IF ~InList(msg.channel + 1, cmd.channels)
    THEN Outcome("channel", "none", 0, <<>>)
    ELSE ExecuteMatched(cmd, msg)

----------------------------------------------------------------------------
(* The calls of parse_user_input that are checked.                         *)

\* the characters of the single tokens
TokenAlphabet == {"0", "1", "5", ":", "-", "x"}

\* no run of more than MaxDigits digits
DigitRunsOK(s) ==
    \A i \in 1..Len(s) :
        i + MaxDigits <= Len(s) => \E j \in i..(i + MaxDigits) : ~IsDigit(s[j])

Tokens ==
    {s \in UNION {[1..n -> TokenAlphabet] : n \in 0..MaxLen} : DigitRunsOK(s)}

\* strings of two items and lists, of every type the function tells apart
SmallItems ==
    {<<>>, <<"1">>, <<"0", ":", "5">>, <<"1", "-", "5">>, S_all, <<"x">>,
     <<"1", ":", "5", ":", "0">>}

ItemSeparators == {<<",">>, <<",", " ">>, <<" ">>, <<" ", " ">>, <<" ", ",">>}

TwoItemStrings == {a \o sp \o b : a \in SmallItems, sp \in ItemSeparators, b \in SmallItems}

ListItems ==
    {VInt(1), VInt(200), VStr(<<"0", ":", "5">>), VStr(S_all),
     VStr(<<"1", ",", " ", "5">>), VList(<<VInt(2), VStr(<<"1", "-", "5">>)>>),
     VFloat(1), VStr(<<"1", ":", "5", ":", "0">>)}

StructuredInputs ==
    {VInt(n) : n \in {0 - 1, 0, 5, 200}} \cup {VFloat(1), VNone, VStr(S_all)}
        \cup {VStr(s) : s \in TwoItemStrings}
        \cup {VList(l) : l \in UNION {[1..n -> ListItems] : n \in 0..2}}
        \cup {VStr(<<"5">>), VStr(<<"0", ":", "5">>), VStr(<<"1", ":", "5", ":", "2">>),
              VStr(<<"1", ":", "5", ":", "-", "1">>), VStr(<<"1", "-", "5">>)}
        \cup {VList(<<VInt(1), VStr(<<"2", ":", "4">>), VInt(3)>>),
              VList(<<VInt(1), VList(<<VInt(2), VInt(3)>>)>>)}

DefaultRanges == {<<0, 127>>, <<1, 16>>, <<1, 4>>, <<5, 5>>, <<0 - 2, 1>>}

ParseCases ==
    {<<VStr(s), <<0, 127>>>> : s \in Tokens} \cup (StructuredInputs \X DefaultRanges)

ParseInit ==
    /\ \E c \in ParseCases : user_input = c[1] /\ default_range = c[2]
    /\ parse_pc = "call"
    /\ parse_ret = Ret(<<>>, 0, 0)

\* one call parse_user_input(user_input, default_range) with the default
\* range_separator '-'
ParseCall ==
    /\ parse_pc = "call"
    /\ parse_ret' = ParseUserInput(user_input, default_range, "-")
    /\ parse_pc' = IF parse_ret'.raised = "none" THEN "returned" ELSE "raised"
    /\ UNCHANGED <<user_input, default_range, rule_vars, launcher_vars,
                   payload_vars>>

----------------------------------------------------------------------------
(* One Command: its construction from a configuration entry and calls of   *)
(* its execute method.                                                     *)

S_Note_On == <<"N", "o", "t", "e", "_", "O", "n">>
S_foo == <<"f", "o", "o">>
S_clock == <<"c", "l", "o", "c", "k">>

\* the command template of the entries
Template == <<"s", " ">> \o S_VALUE \o <<" ">> \o S_PERCENTAGE \o <<" ">> \o S_DECIMAL

\* the names of the input ports
PortNames == {<<"L", "P", "D", "8">>, <<"n", "a", "n", "o", "K">>}

ConfigEvents ==
    {VNone, VStr(S_note_on), VStr(S_note_off), VStr(S_control_change),
     VStr(S_Note_On), VStr(S_foo)}

ConfigCommands == {VNone, VStr(Template)}

ConfigActives == {VNone, VBool(TRUE), VBool(FALSE)}

ConfigMappings ==
    {VList(<<VInt(0), VInt(1)>>), VList(<<VInt(5), VInt(0 - 5)>>), VStr(S_all),
     VStr(<<"0", ",", "1">>), VStr(<<" ", "1", ",", " ", "5">>),
     VStr(<<"a", ",", "b">>), VStr(<<>>), VStr(<<"x">>), VStr(<<"1", ",", "2", ",", "3">>),
     VStr(<<"7">>), VList(<<VInt(1)>>), VList(<<VInt(1), VInt(2), VInt(3)>>), VInt(5)}

\* the selector fields of an entry: channels, note, velocities, control,
\* values, ports
Selectors(ch, nt, vl, ct, va, po) ==
    [channels |-> ch, note |-> nt, velocities |-> vl, control |-> ct,
     values |-> va, ports |-> po]

NoSelectors == Selectors(VNone, VNone, VNone, VNone, VNone, VNone)

ConfigSelectors ==
    {NoSelectors}
      \cup {[NoSelectors EXCEPT !.channels = v] :
              v \in {VStr(<<"1">>), VInt(2), VStr(<<"x">>), VStr(<<"1", ":", "5", ":", "0">>)}}
      \cup {[NoSelectors EXCEPT !.note = v] :
              v \in {VList(<<VInt(60)>>), VStr(<<"6", "0", "-", "6", "1">>), VStr(<<"6", "0", ":", "6", "1", "x">>)}}
      \cup {[NoSelectors EXCEPT !.velocities = v] :
              v \in {VStr(<<"1", "0", "0", ":", "1", "2", "7">>), VInt(0)}}
      \cup {[NoSelectors EXCEPT !.control = v] : v \in {VInt(7), VStr(<<"8", ",", "9">>)}}
      \cup {[NoSelectors EXCEPT !.values = v] :
              v \in {VStr(<<"0">>), VList(<<VInt(100), VStr(<<"1", "2", "7">>)>>), VFloat(1)}}
      \cup {[NoSelectors EXCEPT !.ports = v] :
              v \in {VStr(<<"l", "p">>), VStr(<<"L", "P">>), VStr(<<>>), VStr(<<"x">>),
                     VList(<<VStr(<<"K">>), VStr(<<"x">>)>>), VInt(5),
                     VList(<<VInt(1)>>)}}

Config(ev, cmd, act, map, sel) ==
    [active |-> act, channels |-> sel.channels, command |-> cmd,
     control |-> sel.control, event |-> ev, mapping |-> map, name |-> VNone,
     note |-> sel.note, ports |-> sel.ports, values |-> sel.values,
     velocities |-> sel.velocities]

\* the entries: every event, command and active field, with either a
\* mapping field or selector fields
ConfigEntries ==
    {Config(ev, cmd, act, map, NoSelectors) :
        ev \in ConfigEvents, cmd \in ConfigCommands, act \in ConfigActives,
        map \in ConfigMappings}
      \cup {Config(ev, cmd, act, VNone, sel) :
              ev \in ConfigEvents, cmd \in ConfigCommands, act \in ConfigActives,
              sel \in ConfigSelectors}

\* a mido message; a field its type does not have is 0 and never read
Message(type, channel, note, velocity, control, value) ==
    [type |-> type, channel |-> channel, note |-> note, velocity |-> velocity,
     control |-> control, value |-> value]

Messages ==
    {Message(ty, ch, nt, vl, 0, 0) :
        ty \in {S_note_on, S_note_off}, ch \in {0, 1}, nt \in {60, 62},
        vl \in {0, 100, 127}}
      \cup {Message(S_control_change, ch, 0, 0, ct, va) :
              ch \in {0, 1}, ct \in {7, 8}, va \in {0, 100, 127}}
      \cup {Message(S_clock, 0, 0, 0, 0, 0)}

NoCommand ==
    [active |-> FALSE, channels |-> VNone, command |-> VNone, control |-> VNone,
     event |-> VNone, mapping |-> VNone, name |-> VNone, note |-> VNone,
     ports |-> VNone, values |-> VNone, velocities |-> VNone]

NoMessage == [message |-> Message(<<>>, 0, 0, 0, 0, 0), port_name |-> <<>>]

RuleInit ==
    /\ rule_config \in ConfigEntries
    /\ rule = NoCommand
    /\ rule_pc = "new"
    /\ rule_message = NoMessage
    /\ rule_outcome = Outcome("none", "none", 0, <<>>)

\* rule = Command(rule_config)
RuleConstruct ==
    /\ rule_pc = "new"
    /\ rule' = CommandInit(rule_config).cmd
    /\ rule_pc' = IF CommandInit(rule_config).raised = "none" THEN "built" ELSE "raised"
    /\ UNCHANGED <<rule_config, rule_message, rule_outcome, parse_vars, launcher_vars,
                   payload_vars>>

\* rule.execute(message, port_name)
RuleExecute ==
    /\ rule_pc = "built"
    /\ \E m \in Messages, p \in PortNames :
         /\ rule_message' = [message |-> m, port_name |-> p]
         /\ rule_outcome' = Execute(rule, m, p)
    /\ rule_pc' = "executed"
    /\ UNCHANGED <<rule_config, rule, parse_vars, launcher_vars,
                   payload_vars>>

----------------------------------------------------------------------------
(* The payload of a dispatch: lines 483-490 of Command.execute, run for a  *)
(* rule that matched with the derived value `value`.                       *)

\* command templates: the placeholders alone, repeated, side by side, one
\* inside the letters of another, in lower case and cut short
PayloadTemplates ==
    {<<>>, <<"x">>, Template, S_VALUE, S_VELOCITY, S_PERCENTAGE, S_DECIMAL,
     S_VALUE \o S_VELOCITY, S_DECIMAL \o <<" ">> \o S_DECIMAL,
     <<"$">> \o S_VALUE, <<"$", "v", "a", "l", "u", "e">>, <<"$", "V", "A", "L">>,
     <<"$", "P", "E", "R", "C", "E", "N", "T">> \o S_VALUE \o <<"A", "G", "E">>,
     <<"a">> \o S_VELOCITY \o <<"b">> \o S_PERCENTAGE \o <<"%", " ">> \o S_VALUE}

\* mappings as parse_mapping leaves them in a rule that can dispatch
PayloadMappings ==
    {DefaultMapping, VList(<<VInt(0), VInt(1)>>), VList(<<VInt(5), VInt(0 - 5)>>),
     VList(<<VFloat(0 - 1), VFloat(1)>>), VList(<<VInt(3), VInt(3)>>)}

NoPayload == [percentage |-> 0, decimal |-> 0, command |-> <<>>]

PayloadInit ==
    /\ payload_in \in [command : PayloadTemplates, value : 0..127,
                       mapping : PayloadMappings]
    /\ payload_pc = "matched"
    /\ payload_out = NoPayload

\* lines 483-490
PayloadCompute ==
    /\ payload_pc = "matched"
    /\ payload_out' =
          [percentage |-> Percentage(payload_in.value),
           decimal |-> DecimalHundredths(payload_in.mapping, payload_in.value),
           command |-> Substitute(payload_in.command, payload_in.mapping,
                                  payload_in.value)]
    /\ payload_pc' = "done"
    /\ UNCHANGED <<payload_in, parse_vars, rule_vars, launcher_vars>>

----------------------------------------------------------------------------
(* The program: MIDILauncher.__init__ and MIDILauncher.run.                *)

\* line 360: the list of input ports is renewed after this many seconds
RenewInterval == 5

\* an empty table of the "commands" array
EmptyTable == Config(VNone, VNone, VNone, VNone, NoSelectors)

Entry(ev, cmd) == Config(ev, cmd, VNone, VNone, NoSelectors)

\* the tables of the configuration files that are run
RunEntries ==
    {EmptyTable,
     Entry(VStr(S_note_on), VStr(Template)),
     Entry(VStr(S_control_change), VStr(Template)),
     Entry(VStr(S_note_on), VNone),
     Config(VStr(S_foo), VStr(Template), VBool(TRUE), VNone, NoSelectors),
     Config(VNone, VNone, VBool(TRUE), VStr(<<"a", ",", "b">>),
            [NoSelectors EXCEPT !.channels = VStr(<<"1", ":", "5", ":", "0">>),
                                !.ports = VList(<<VInt(1)>>)]),
     Entry(VStr(S_Note_On), VStr(Template)),
     Config(VStr(S_note_on), VStr(Template), VBool(FALSE), VNone, NoSelectors),
     Config(VStr(S_note_on), VStr(Template), VNone, VStr(<<"a", ",", "b">>), NoSelectors),
     Config(VStr(S_note_on), VStr(Template), VNone, VList(<<VInt(1)>>), NoSelectors),
     Config(VStr(S_note_on), VStr(Template), VNone, VNone,
            [NoSelectors EXCEPT !.note = VList(<<VInt(60)>>), !.ports = VStr(<<"L", "P">>)]),
     Config(VStr(S_note_on), VStr(Template), VNone, VNone,
            [NoSelectors EXCEPT !.channels = VStr(<<"x">>)]),
     Config(VStr(S_note_on), VStr(Template), VNone, VNone,
            [NoSelectors EXCEPT !.channels = VStr(<<"1", ":", "5", ":", "0">>)])}

\* the messages the devices send
RunMessages ==
    {Message(S_note_on, 0, 60, 100, 0, 0), Message(S_note_on, 1, 62, 127, 0, 0),
     Message(S_control_change, 0, 0, 0, 7, 64), Message(S_clock, 0, 0, 0, 0, 0)}

\* the lists of attached ports
PortLists ==
    {<<>>, <<<<"L", "P", "D", "8">>>>, <<<<"L", "P", "D", "8">>, <<"n", "a", "n", "o", "K">>>>}

NoCall == [event |-> 0, rule |-> 0, how |-> "none", raised |-> "none", command |-> <<>>]

Init ==
    /\ config \in UNION {[1..n -> RunEntries] : n \in 0..MaxRules}
    /\ ignore_clock \in BOOLEAN
    /\ input_names \in PortLists
    /\ now = 0
    /\ sent = <<>>
    /\ pc = "start"
    /\ commands = <<>>
    /\ open_ports = <<>>
    /\ pending = <<>>
    /\ last_update = 0
    /\ port_idx = 0
    /\ message = [id |-> 0, msg |-> NoMessage.message]
    /\ cmd_idx = 0
    /\ calls = <<>>
    /\ completed = 0
    /\ check_times = <<0 - 1, 0 - 1>>
    /\ last_iteration = "none"

\* parse_config_file, lines 331-335: the tables that are not empty
Tables(cfg) == SelectSeq(cfg, LAMBDA c : c # EmptyTable)

\* main, lines 804-807: MIDILauncher(...) and the first line of run().
\* __init__ opens the attached ports (sys.exit when there is none) and
\* builds a Command from every table that is not empty; an exception of
\* Command.__init__ is caught nowhere.
Start ==
    /\ pc = "start"
    /\ LET tables == Tables(config)
           built == [i \in 1..Len(tables) |-> CommandInit(tables[i])]
           ok == \A i \in 1..Len(tables) : built[i].raised = "none"
       IN  IF input_names = <<>>
           THEN /\ pc' = "exited"
                /\ UNCHANGED <<commands, open_ports, pending>>
           ELSE /\ open_ports' = input_names
                /\ pending' = [i \in 1..Len(input_names) |-> <<>>]
                /\ commands' = IF ok THEN [i \in 1..Len(tables) |-> built[i].cmd] ELSE <<>>
                /\ pc' = IF ok THEN "top" ELSE "crashed"
    /\ last_update' = now
    /\ UNCHANGED <<port_idx, message, cmd_idx, calls, completed, check_times,
                   last_iteration, env_vars, parse_vars, rule_vars, payload_vars>>

\* line 360, when the interval has not passed
LoopTop ==
    /\ pc = "top"
    /\ ~(now - last_update > RenewInterval)
    /\ pc' = "poll"
    /\ port_idx' = 1
    /\ UNCHANGED <<commands, open_ports, pending, last_update, message, cmd_idx,
                   calls, completed, check_times, last_iteration, env_vars,
                   parse_vars, rule_vars, payload_vars>>

\* lines 360-366, when the interval has passed and the ports are the same:
\* last_update stays as it is
CheckPorts ==
    /\ pc = "top"
    /\ now - last_update > RenewInterval
    /\ input_names = open_ports
    /\ check_times' = <<check_times[2], now>>
    /\ pc' = "poll"
    /\ port_idx' = 1
    /\ UNCHANGED <<commands, open_ports, pending, last_update, message, cmd_idx,
                   calls, completed, last_iteration, env_vars, parse_vars,
                   rule_vars, payload_vars>>

\* lines 360-369, when the ports have changed: get_input_ports() opens the
\* attached ports anew (sys.exit when there is none)
RenewPorts ==
    /\ pc = "top"
    /\ now - last_update > RenewInterval
    /\ input_names # open_ports
    /\ check_times' = <<check_times[2], now>>
    /\ IF input_names = <<>>
       THEN /\ pc' = "exited"
            /\ UNCHANGED <<open_ports, pending, last_update, port_idx>>
       ELSE /\ open_ports' = input_names
            /\ pending' = [i \in 1..Len(input_names) |-> <<>>]
            /\ last_update' = now
            /\ pc' = "poll"
            /\ port_idx' = 1
    /\ UNCHANGED <<commands, message, cmd_idx, calls, completed, last_iteration,
                   env_vars, parse_vars, rule_vars, payload_vars>>

\* lines 362-365: mido.get_input_names() raises InvalidPortError, and
\* `continue` starts the next iteration of the while loop
PortCheckFails ==
    /\ pc = "top"
    /\ now - last_update > RenewInterval
    /\ check_times' = <<check_times[2], now>>
    /\ last_iteration' = "skipped"
    /\ pc' = "top"
    /\ UNCHANGED <<commands, open_ports, pending, last_update, port_idx, message,
                   cmd_idx, calls, completed, env_vars, parse_vars, rule_vars,
                   payload_vars>>

\* lines 372-377: the next pending message of the ports, in port order
Poll ==
    /\ pc = "poll"
    /\ IF port_idx > Len(open_ports)
       THEN /\ pc' = "sleep"
            /\ UNCHANGED <<pending, port_idx, message, cmd_idx>>
       ELSE IF pending[port_idx] = <<>>
       THEN /\ port_idx' = port_idx + 1
            /\ UNCHANGED <<pc, pending, message, cmd_idx>>
       ELSE /\ pending' = [pending EXCEPT ![port_idx] = Tail(@)]
            /\ IF (ignore_clock /\ Head(pending[port_idx]).msg.type = S_clock)
                    \/ commands = <<>>
               THEN UNCHANGED <<pc, message, cmd_idx>>
               ELSE /\ message' = Head(pending[port_idx])
                    /\ cmd_idx' = 1
                    /\ pc' = "exec"
            /\ UNCHANGED port_idx
    /\ UNCHANGED <<commands, open_ports, last_update, calls, completed, check_times,
                   last_iteration, env_vars, parse_vars, rule_vars, payload_vars>>

\* Exec with a launched command left to itself
ExecWithoutWaiting ==
    /\ pc = "exec"
    /\ LET out == Execute(commands[cmd_idx], message.msg, open_ports[port_idx])
       IN  /\ calls' = Append(calls, [event |-> message.id, rule |-> cmd_idx,
                                      how |-> out.how, raised |-> out.raised,
                                      command |-> out.command])
           /\ pc' = IF out.how = "raised" THEN "crashed"
                    ELSE IF cmd_idx = Len(commands) THEN "poll" ELSE "exec"
           /\ cmd_idx' = IF out.how = "raised" \/ cmd_idx = Len(commands)
                         THEN cmd_idx ELSE cmd_idx + 1
    /\ UNCHANGED <<commands, open_ports, pending, last_update, port_idx, message,
                   completed, check_times, last_iteration, env_vars, parse_vars,
                   rule_vars, payload_vars>>

\* Exec with a rule that is switched off once it has dispatched
ExecOnce ==
    /\ pc = "exec"
    /\ LET out == Execute(commands[cmd_idx], message.msg, open_ports[port_idx])
       IN  /\ calls' = Append(calls, [event |-> message.id, rule |-> cmd_idx,
                                      how |-> out.how, raised |-> out.raised,
                                      command |-> out.command])
           /\ commands' = IF out.how = "dispatch"
                          THEN [commands EXCEPT ![cmd_idx].active = FALSE]
                          ELSE commands
           /\ pc' = IF out.how = "raised" THEN "crashed"
                    ELSE IF out.how = "dispatch" THEN "wait"
                    ELSE IF cmd_idx = Len(commands) THEN "poll" ELSE "exec"
           /\ cmd_idx' = IF out.how \in {"raised", "dispatch"} \/ cmd_idx = Len(commands)
                         THEN cmd_idx ELSE cmd_idx + 1
    /\ UNCHANGED <<open_ports, pending, last_update, port_idx, message,
                   completed, check_times, last_iteration, env_vars, parse_vars,
                   rule_vars, payload_vars>>

\* lines 378-380: the call command.execute(message, port.name) for the
\* next command, up to its return or, when the command matched, up to the
\* call of subprocess.run on line 495, which returns when the launched
\* command has ended; an exception of execute is caught nowhere
Exec ==
    /\ pc = "exec"
    /\ LET out == Execute(commands[cmd_idx], message.msg, open_ports[port_idx])
       IN  /\ calls' = Append(calls, [event |-> message.id, rule |-> cmd_idx,
                                      how |-> out.how, raised |-> out.raised,
                                      command |-> out.command])
           /\ pc' = IF out.how = "raised" THEN "crashed"
                    ELSE IF out.how = "dispatch" THEN "wait"
                    ELSE IF cmd_idx = Len(commands) THEN "poll" ELSE "exec"
           /\ cmd_idx' = IF out.how \in {"raised", "dispatch"} \/ cmd_idx = Len(commands)
                         THEN cmd_idx ELSE cmd_idx + 1
    /\ UNCHANGED <<commands, open_ports, pending, last_update, port_idx, message,
                   completed, check_times, last_iteration, env_vars, parse_vars,
                   rule_vars, payload_vars>>

\* line 495: the launched command ends, subprocess.run returns (its result
\* is dropped, check=False) and so does execute
CommandExits ==
    /\ pc = "wait"
    /\ completed' = completed + 1
    /\ pc' = IF cmd_idx = Len(commands) THEN "poll" ELSE "exec"
    /\ cmd_idx' = IF cmd_idx = Len(commands) THEN cmd_idx ELSE cmd_idx + 1
    /\ UNCHANGED <<commands, open_ports, pending, last_update, port_idx, message,
                   calls, check_times, last_iteration, env_vars, parse_vars,
                   rule_vars, payload_vars>>

\* line 383: time.sleep(0.01)
Sleep ==
    /\ pc = "sleep"
    /\ pc' = "top"
    /\ last_iteration' = "slept"
    /\ UNCHANGED <<commands, open_ports, pending, last_update, port_idx, message,
                   cmd_idx, calls, completed, check_times, env_vars, parse_vars,
                   rule_vars, payload_vars>>

\* the clock moves on while the program sleeps
Tick ==
    /\ pc = "sleep"
    /\ now < MaxTime
    /\ now' = now + 1
    /\ UNCHANGED <<run_vars, config, ignore_clock, input_names, sent, parse_vars,
                   rule_vars, payload_vars>>

\* a device sends a message to an open port
Arrive ==
    /\ pc \in {"top", "poll", "exec", "wait", "sleep"}
    /\ Len(sent) < MaxEvents
    /\ \E i \in 1..Len(open_ports), m \in RunMessages :
         /\ sent' = Append(sent, [msg |-> m, port_name |-> open_ports[i]])
         /\ pending' = [pending EXCEPT ![i] = Append(@, [id |-> Len(sent) + 1, msg |-> m])]
    /\ UNCHANGED <<pc, commands, open_ports, last_update, port_idx, message,
                   cmd_idx, calls, completed, check_times, last_iteration, config,
                   ignore_clock, input_names, now, parse_vars, rule_vars,
                   payload_vars>>

\* a device is attached or removed
PortsChange ==
    /\ pc \in {"top", "poll", "exec", "wait", "sleep"}
    /\ input_names = open_ports
    /\ \E names \in PortLists : names # input_names /\ input_names' = names
    /\ UNCHANGED <<run_vars, config, ignore_clock, now, sent, parse_vars, rule_vars,
                   payload_vars>>

\* a run in which the ports stay as they are and the clock stands still:
\* what the program does before the list of ports is first renewed
Next ==
    \/ Start
    \/ LoopTop
    \/ Poll
    \/ Exec
    \/ CommandExits
    \/ Sleep
    \/ Arrive

\* a run in which time passes and devices come and go
NextPoll ==
    \/ Next
    \/ Tick
    \/ PortsChange
    \/ CheckPorts
    \/ RenewPorts
    \/ PortCheckFails

ParseIdle ==
    /\ user_input = VNone
    /\ default_range = <<0, 127>>
    /\ parse_pc = "idle"
    /\ parse_ret = Ret(<<>>, 0, 0)

RuleIdle ==
    /\ rule_config = EmptyTable
    /\ rule = NoCommand
    /\ rule_pc = "idle"
    /\ rule_message = NoMessage
    /\ rule_outcome = Outcome("none", "none", 0, <<>>)

LauncherIdle ==
    /\ config = <<>>
    /\ ignore_clock = FALSE
    /\ input_names = <<>>
    /\ now = 0
    /\ sent = <<>>
    /\ pc = "idle"
    /\ commands = <<>>
    /\ open_ports = <<>>
    /\ pending = <<>>
    /\ last_update = 0
    /\ port_idx = 0
    /\ message = [id |-> 0, msg |-> NoMessage.message]
    /\ cmd_idx = 0
    /\ calls = <<>>
    /\ completed = 0
    /\ check_times = <<0 - 1, 0 - 1>>
    /\ last_iteration = "none"

PayloadIdle ==
    /\ payload_in = [command |-> <<>>, value |-> 0, mapping |-> DefaultMapping]
    /\ payload_pc = "idle"
    /\ payload_out = NoPayload

\* calls of parse_user_input
InitParse == ParseInit /\ RuleIdle /\ LauncherIdle /\ PayloadIdle

SpecParse == InitParse /\ [][ParseCall]_vars

\* one Command, built and executed
InitRule == RuleInit /\ ParseIdle /\ LauncherIdle /\ PayloadIdle

SpecRule == InitRule /\ [][RuleConstruct \/ RuleExecute]_vars

\* one run of the program, up to the first renewal of the list of ports
InitRun == Init /\ ParseIdle /\ RuleIdle /\ PayloadIdle

Spec == InitRun /\ [][Next]_vars

\* the polling loop with the clock and the devices, for one rule
InitPoll ==
    Init /\ Len(config) <= 1 /\ ~ignore_clock /\ ParseIdle /\ RuleIdle /\ PayloadIdle

SpecPoll == InitPoll /\ [][NextPoll]_vars

\* the payload of one dispatch
InitPayload == PayloadInit /\ ParseIdle /\ RuleIdle /\ LauncherIdle

SpecPayload == InitPayload /\ [][PayloadCompute]_vars

----------------------------------------------------------------------------
(* The colon ranges of parse_user_input, as a reader of the documentation  *)
(* writes them: two or three integer literals between colons.              *)

\* an integer literal: digits, with an optional minus sign
IntLiteral(s) == IsDigitStr(IF s # <<>> /\ s[1] = "-" THEN Tail(s) ELSE s)

LiteralValue(s) ==
    IF s[1] = "-" THEN 0 - DigitsValue(Tail(s)) ELSE DigitsValue(s)

\* "start:end" or "start:end:step"
IsColonForm(s) ==
    /\ Len(SplitChar(s, ":")) \in {2, 3}
    /\ \A i \in 1..Len(SplitChar(s, ":")) : IntLiteral(SplitChar(s, ":")[i])

\* "start-end"
IsSeparatorForm(s) ==
    /\ Len(SplitChar(s, "-")) = 2
    /\ \A i \in 1..2 : IsDigitStr(SplitChar(s, "-")[i])

\* a string that is one item: no comma and no blank in it
IsOneItem(s) == \A i \in 1..Len(s) : s[i] # "," /\ ~IsSpace(s[i])

\* the call under consideration was made with a colon range
ColonCall ==
    /\ parse_pc # "call"
    /\ user_input.t = "str"
    /\ IsColonForm(user_input.s)

ColonStart == LiteralValue(SplitChar(user_input.s, ":")[1])

ColonEnd == LiteralValue(SplitChar(user_input.s, ":")[2])

ColonStep ==
    IF Len(SplitChar(user_input.s, ":")) = 3
    THEN LiteralValue(SplitChar(user_input.s, ":")[3])
    ELSE 1

\* C7: a colon range with step 0 makes parse_user_input return the empty
\* list with an error diagnostic, and no call of parse_user_input raises
C7_StepZeroIsAnError ==
    /\ parse_pc # "raised"
    /\ (ColonCall /\ ColonStep = 0) =>
          (parse_pc = "returned" /\ parse_ret.result = <<>> /\ parse_ret.errors >= 1)

\* C8: for a colon range with a negative step the bounds are exchanged and
\* the ascending list from the exchanged bounds, at distance |step|, is
\* returned without an error (parse("5:1:-1") = [1, 2, 3, 4, 5])
C8_NegativeStepAscending ==
    (ColonCall /\ ColonStep < 0) =>
        /\ parse_pc = "returned"
        /\ parse_ret.errors = 0
        /\ parse_ret.result = PyRange(IF ColonStart < ColonEnd THEN ColonStart ELSE ColonEnd,
                                      (IF ColonStart < ColonEnd THEN ColonEnd ELSE ColonStart) + 1,
                                      0 - ColonStep)

\* C9: a string item that is not empty, not "all", not a plain integer, not
\* a well-formed colon range and not a well-formed start-end range gives
\* the empty list and an error diagnostic
C9_MalformedItemRejected ==
    (/\ parse_pc # "call"
     /\ user_input.t = "str"
     /\ IsOneItem(user_input.s)
     /\ user_input.s # <<>>
     /\ user_input.s # S_all
     /\ ~IsDigitStr(user_input.s)
     /\ ~IsColonForm(user_input.s)
     /\ ~IsSeparatorForm(user_input.s))
        => (parse_pc = "returned" /\ parse_ret.result = <<>> /\ parse_ret.errors >= 1)

\* C10: for a colon range "s:e" or "s:e:k" with k > 0 (k = 1 when omitted):
\* if s <= e the result is s, s+k, s+2k, ... up to the largest term not
\* above e, without an error; if s > e it is the empty list with an error
C10_ColonProgression ==
    (ColonCall /\ ColonStep > 0) =>
        /\ parse_pc = "returned"
        /\ IF ColonStart <= ColonEnd
           THEN /\ parse_ret.errors = 0
                /\ Len(parse_ret.result) = (ColonEnd - ColonStart) \div ColonStep + 1
                /\ \A i \in 1..Len(parse_ret.result) :
                     parse_ret.result[i] = ColonStart + (i - 1) * ColonStep
           ELSE parse_ret.result = <<>> /\ parse_ret.errors >= 1

\* a step above 1 that does not divide end - start, and several numbers
C10_Witness ==
    /\ ColonCall
    /\ ColonStep > 1
    /\ ColonStart < ColonEnd
    /\ (ColonEnd - ColonStart) % ColonStep # 0
    /\ parse_pc = "returned"
    /\ Len(parse_ret.result) >= 3
    /\ parse_ret.result[Len(parse_ret.result)] < ColonEnd

----------------------------------------------------------------------------
(* One rule: its construction and one call of execute.                     *)

\* the ports of rule r admit the port the event came from
SourceMatches(r, port_name) ==
    /\ r.ports.t = "list"
    /\ \/ r.ports = VList(<<VStr(S_all)>>)
       \/ \E i \in 1..Len(r.ports.l) :
            /\ r.ports.l[i].t = "str"
            /\ Contains(Lower(port_name), r.ports.l[i].s)

\* v is one of the numbers of a selector field of a rule
Selected(v, field) == field.t = "ints" /\ \E i \in 1..Len(field.q) : field.q[i] = v

\* the conditions under which rule r is to dispatch for event msg
Matches(r, msg, port_name) ==
    /\ r.active
    /\ r.event = VStr(msg.type)
    /\ SourceMatches(r, port_name)
    /\ Selected(msg.channel + 1, r.channels)
    /\ \/ /\ r.event.s \in {S_note_on, S_note_off}
          /\ Selected(msg.note, r.note)
          /\ Selected(msg.velocity, r.velocities)
       \/ /\ r.event.s = S_control_change
          /\ Selected(msg.control, r.control)
          /\ Selected(msg.value, r.values)

RuleMatches == Matches(rule, rule_message.message, rule_message.port_name)

\* C2: execute dispatches if and only if the rule is active, the kinds are
\* equal, the ports, the channel and the selectors of the kind admit the
\* event; the derived value is then the velocity (note kinds) or the value
\* (control_change); a rule with default selectors matches every event of
\* its kind
C2_DispatchIffMatch ==
    rule_pc = "executed" =>
        /\ (rule_outcome.how = "dispatch") <=> RuleMatches
        /\ rule_outcome.how = "dispatch" =>
              rule_outcome.value =
                  (IF rule.event.s = S_control_change
                   THEN rule_message.message.value
                   ELSE rule_message.message.velocity)
        /\ (/\ rule.active
            /\ rule.event.t = "str"
            /\ rule.event.s \in ValidEvents
            /\ rule.event.s = rule_message.message.type
            /\ \A f \in DOMAIN NoSelectors : rule_config[f] = VNone)
              => rule_outcome.how = "dispatch"

\* C4: a rule with a valid event kind and no command field is inactive
\* after construction, and execute returns for every event without
\* substituting or dispatching
C4_NoCommandInactive ==
    (/\ rule_pc \in {"built", "executed"}
     /\ rule_config.event.t = "str"
     /\ rule_config.event.s \in ValidEvents
     /\ rule_config.command = VNone)
        => /\ ~rule.active
           /\ rule_pc = "executed" =>
                 (rule_outcome.how = "inactive" /\ rule_outcome.raised = "none")

\* the pair a mapping field of the configuration stands for
MappingPair(mapping) ==
    IF mapping = VNone THEN DefaultMapping
    ELSE IF mapping.t = "list" /\ Len(mapping.l) = 2 THEN mapping
    ELSE IF /\ mapping.t = "str"
            /\ Len(SplitChar(mapping.s, ",")) = 2
            /\ \A i \in 1..2 : FloatOf(SplitChar(mapping.s, ",")[i]).ok
    THEN VList([i \in 1..2 |-> VFloat(FloatOf(SplitChar(mapping.s, ",")[i]).v)])
    ELSE DefaultMapping

\* C5: a rule with a valid event kind (and default selector fields) is
\* constructed without failure, stays active unless configured inactive,
\* and its mapping is a pair of numbers: a 2-element list is kept, "all"
\* is (0, 127), two comma-separated numbers are that pair, every other
\* value is the default (0, 127)
C5_MappingIsPair ==
    (/\ rule_pc # "new"
     /\ rule_config.event.t = "str"
     /\ rule_config.event.s \in ValidEvents
     /\ \A f \in DOMAIN NoSelectors : rule_config[f] = VNone)
        => /\ rule_pc # "raised"
           /\ rule.active = Truthy(Get(rule_config, "active", VBool(TRUE)))
           /\ rule.mapping = MappingPair(rule_config.mapping)
           /\ rule.mapping.t = "list"
           /\ Len(rule.mapping.l) = 2
           /\ \A i \in 1..2 : rule.mapping.l[i].t \in {"int", "float"}

----------------------------------------------------------------------------
(* The engine: the rules of a configuration and the events of a run.       *)

\* the constructor has returned and run() has begun
Started == pc \in {"top", "poll", "exec", "wait", "sleep"} \/ (pc = "crashed" /\ calls # <<>>)

\* event e has been taken from its port and is not being evaluated now
Evaluated(e) ==
    /\ \A i \in 1..Len(pending) : \A j \in 1..Len(pending[i]) : pending[i][j].id # e
    /\ ~(pc \in {"exec", "wait"} /\ message.id = e)

\* the rules that dispatched for event e, in the order of their dispatches
DispatchedRules(e) ==
    LET done == SelectSeq(calls, LAMBDA c : c.event = e /\ c.how = "dispatch")
    IN  [k \in 1..Len(done) |-> done[k].rule]

\* the rules that match event e, in declaration order
MatchingRules(e) ==
    SelectSeq([i \in 1..Len(commands) |-> i],
              LAMBDA i : Matches(commands[i], sent[e].msg, sent[e].port_name))

\* C1: for every event the sequence of dispatches is exactly the
\* subsequence of the matching rules in declaration order, one dispatch
\* each, and all dispatches for an event precede those of the next event
\* from the same port
C1_DispatchesInDeclarationOrder ==
    /\ \A e \in 1..Len(sent) : Evaluated(e) => DispatchedRules(e) = MatchingRules(e)
    /\ \A j, k \in 1..Len(calls) :
         (j < k /\ sent[calls[j].event].port_name = sent[calls[k].event].port_name)
            => \/ calls[j].event < calls[k].event
               \/ calls[j].event = calls[k].event /\ calls[j].rule < calls[k].rule

\* the event field is none of the three kinds, as written
UnknownAsWritten(event) == event.t # "str" \/ event.s \notin ValidEvents

\* the event field is none of the three kinds, whatever the case of its
\* letters
UnknownInLowerCase(event) == event.t # "str" \/ Lower(event.s) \notin ValidEvents

\* rule i of the engine is inactive, its fields are as the configuration
\* has them, and none of its calls dispatched
KeptInactiveAndUnparsed(i) ==
    /\ ~commands[i].active
    /\ commands[i] = [RawCommand(Tables(config)[i]) EXCEPT !.active = FALSE]
    /\ \A k \in 1..Len(calls) : calls[k].rule = i => calls[k].how = "inactive"

\* C3: a rule whose event field is not one of note_on, note_off,
\* control_change (or is absent) is kept in the rule list, inactive whatever
\* the configuration says, with none of its other fields parsed, and it
\* never dispatches
C3_UnknownEventInactive ==
    Started =>
        /\ Len(commands) = Len(Tables(config))
        /\ \A i \in 1..Len(Tables(config)) :
             UnknownAsWritten(Tables(config)[i].event) => KeptInactiveAndUnparsed(i)

\* C3, with the kinds compared as the constructor compares them: a rule
\* whose event field, in lower case, is not one of note_on, note_off,
\* control_change (or is absent) is kept in the rule list, inactive whatever
\* the configuration says, with none of its other fields parsed, and it
\* never dispatches
C3_UnknownLowerCaseEventInactive ==
    Started =>
        /\ Len(commands) = Len(Tables(config))
        /\ \A i \in 1..Len(Tables(config)) :
             UnknownInLowerCase(Tables(config)[i].event) => KeptInactiveAndUnparsed(i)

\* a rule of an unknown kind, configured active with fields that no parser
\* accepts, was called for an event, and the rule after it dispatched for
\* the same event
C3_Witness ==
    /\ Started
    /\ \E i \in 1..(Len(commands) - 1) :
         /\ UnknownInLowerCase(Tables(config)[i].event)
         /\ Tables(config)[i].active = VBool(TRUE)
         /\ Tables(config)[i].channels # VNone
         /\ \E j, k \in 1..Len(calls) :
              /\ calls[j].rule = i
              /\ calls[k].rule = i + 1
              /\ calls[k].event = calls[j].event
              /\ calls[k].how = "dispatch"

\* the mapping field is none of the shapes that stand for a pair
MalformedMapping(mapping) ==
    /\ mapping # VNone
    /\ ~(mapping.t = "list" /\ Len(mapping.l) = 2)
    /\ mapping # VStr(S_all)
    /\ ~(/\ mapping.t = "str"
         /\ Len(SplitChar(mapping.s, ",")) = 2
         /\ \A i \in 1..2 : FloatOf(SplitChar(mapping.s, ",")[i]).ok)

\* a selector field that parse_user_input does not accept
UnparseableSelector(field) ==
    /\ field # VNone
    /\ \/ ParseUserInput(field, <<0, 127>>, "-").raised # "none"
       \/ ParseUserInput(field, <<0, 127>>, "-").errors > 0

\* a configuration entry with a bad event kind, no command, a malformed
\* mapping or an unparseable selector field
MalformedEntry(c) ==
    /\ c # EmptyTable
    /\ \/ UnknownAsWritten(c.event)
       \/ c.command = VNone
       \/ MalformedMapping(c.mapping)
       \/ \E f \in {"channels", "note", "velocities", "control", "values"} :
            UnparseableSelector(c[f])

\* C6: with one malformed entry in the configuration, nothing aborts: the
\* program does not end with an exception, and every event that was taken
\* from its port (and not ignored as a clock message) was evaluated by
\* every rule, those placed after the malformed one included
C6_MalformedRuleIsLocal ==
    Cardinality({i \in 1..Len(config) : MalformedEntry(config[i])}) = 1 =>
        /\ pc # "crashed"
        /\ \A e \in 1..Len(sent) :
             (Evaluated(e) /\ ~(ignore_clock /\ sent[e].msg.type = S_clock)) =>
                 \A i \in 1..Len(Tables(config)) :
                     \E k \in 1..Len(calls) : calls[k].event = e /\ calls[k].rule = i

----------------------------------------------------------------------------
(* The ranges written with the separator.                                  *)

\* the string begins with a colon range "start:end"
BeginsWithColonRange(s) == \E n \in 1..Len(s) : IsColonForm(SubSeq(s, 1, n))

\* the call under consideration was made with one item that contains the
\* separator and does not begin with a colon range
SeparatorCall ==
    /\ parse_pc # "call"
    /\ user_input.t = "str"
    /\ IsOneItem(user_input.s)
    /\ CharIn("-", user_input.s)
    /\ ~BeginsWithColonRange(user_input.s)

SeparatorParts == SplitChar(user_input.s, "-")

\* C11: for an item "s-e" that is no colon range: when both parts are
\* integers and s <= e the result is s, s+1, ..., e without an error; when
\* s > e, a part is no number or empty, or the separator occurs more than
\* once, the result is the empty list with an error
C11_SeparatorRange ==
    SeparatorCall =>
        /\ parse_pc = "returned"
        /\ IF /\ Len(SeparatorParts) = 2
              /\ IsDigitStr(SeparatorParts[1])
              /\ IsDigitStr(SeparatorParts[2])
              /\ DigitsValue(SeparatorParts[1]) <= DigitsValue(SeparatorParts[2])
           THEN /\ parse_ret.errors = 0
                /\ Len(parse_ret.result) =
                      DigitsValue(SeparatorParts[2]) - DigitsValue(SeparatorParts[1]) + 1
                /\ \A i \in 1..Len(parse_ret.result) :
                     parse_ret.result[i] = DigitsValue(SeparatorParts[1]) + i - 1
           ELSE parse_ret.result = <<>> /\ parse_ret.errors >= 1

\* a range of several numbers written with the separator
C11_Witness ==
    /\ SeparatorCall
    /\ parse_pc = "returned"
    /\ parse_ret.errors = 0
    /\ Len(parse_ret.result) >= 3
    /\ parse_ret.result[Len(parse_ret.result)] = DigitsValue(SeparatorParts[2])

----------------------------------------------------------------------------
(* The keyword "all".                                                      *)

\* the numbers of the default range, in ascending order
DefaultRun == [i \in 1..(default_range[2] - default_range[1] + 1) |-> default_range[1] + i - 1]

\* the first and the last item of the input: of a list its elements, of a
\* string the pieces between commas and blanks
InputItems ==
    IF user_input.t = "list" THEN user_input.l
    ELSE IF user_input.t = "str"
    THEN [i \in 1..Len(SplitItems(user_input.s)) |-> VStr(SplitItems(user_input.s)[i])]
    ELSE <<>>

StartsWith(r, run) == Len(r) >= Len(run) /\ SubSeq(r, 1, Len(run)) = run

EndsWith(r, run) == Len(r) >= Len(run) /\ SubSeq(r, Len(r) - Len(run) + 1, Len(r)) = run

\* C12: for a default range (lo, hi) with lo <= hi, "all" gives exactly
\* lo, lo+1, ..., hi; and in the list a call returns for a list or a string
\* of several items, the keyword as first item gives these numbers at the
\* start and the keyword as last item gives them at the end
C12_AllIsTheDefaultRange ==
    /\ (parse_pc # "call" /\ user_input = VStr(S_all)) =>
          /\ parse_pc = "returned"
          /\ parse_ret.errors = 0
          /\ Len(parse_ret.result) = default_range[2] - default_range[1] + 1
          /\ \A i \in 1..Len(parse_ret.result) :
               parse_ret.result[i] = default_range[1] + i - 1
    /\ (parse_pc = "returned" /\ Len(InputItems) >= 1) =>
          /\ InputItems[1] = VStr(S_all) => StartsWith(parse_ret.result, DefaultRun)
          /\ InputItems[Len(InputItems)] = VStr(S_all) =>
                EndsWith(parse_ret.result, DefaultRun)

\* the keyword after a number in a list, with a default range of several
\* numbers: [1, "all"]
C12_Witness ==
    /\ parse_pc = "returned"
    /\ user_input.t = "list"
    /\ Len(user_input.l) = 2
    /\ user_input.l[1].t = "int"
    /\ user_input.l[2] = VStr(S_all)
    /\ default_range[1] < default_range[2]
    /\ parse_ret.result = <<user_input.l[1].n>> \o DefaultRun

----------------------------------------------------------------------------
(* Lists and strings of several items.                                     *)

\* what parsing item it alone gives, with the default range of the call
ParsedAlone(it) == ParseUserInput(it, default_range, "-")

\* the concatenation, in order, of what the items from item i on give alone
RECURSIVE ConcatAlone(_, _)
ConcatAlone(items, i) ==
    IF i > Len(items) THEN <<>>
    ELSE ParsedAlone(items[i]).result \o ConcatAlone(items, i + 1)

\* the call under consideration was made with a list or with a string of
\* several items
ItemsCall ==
    /\ parse_pc # "call"
    /\ \/ user_input.t = "list"
       \/ user_input.t = "str" /\ Len(SplitItems(user_input.s)) > 1

\* C13: for a string of several items and for a list, the result is the
\* concatenation, in the order of the items, of what each item gives when
\* parsed alone with the same default range (an integer itself, a string
\* by the grammar of strings, a nested list recursively), nothing sorted
\* and nothing removed; the call raises only when an item alone raises
C13_ParsingDistributes ==
    ItemsCall =>
        IF \A i \in 1..Len(InputItems) : ParsedAlone(InputItems[i]).raised = "none"
        THEN /\ parse_pc = "returned"
             /\ parse_ret.result = ConcatAlone(InputItems, 1)
             /\ \A i \in 1..Len(InputItems) :
                  InputItems[i].t = "int" => ParsedAlone(InputItems[i]).result = <<InputItems[i].n>>
        ELSE parse_pc = "raised"

\* parse([1, "2:4", 3]) = [1, 2, 3, 4, 3]: the order is kept and so is the
\* second 3
C13_Witness ==
    /\ parse_pc = "returned"
    /\ user_input = VList(<<VInt(1), VStr(<<"2", ":", "4">>), VInt(3)>>)
    /\ parse_ret.result = <<1, 2, 3, 4, 3>>

----------------------------------------------------------------------------
(* The default range as a bound that only warns.                           *)

\* the call under consideration was made with one item that is a range
\* written with the separator
SeparatorFormCall ==
    /\ SeparatorCall
    /\ IsSeparatorForm(user_input.s)

\* the call under consideration was made with a number or with a range
\* that is no error: an integer, a string of digits, a colon range with
\* start <= end and a step other than 0, or a separator range with
\* start <= end
BoundedCall ==
    /\ parse_pc # "call"
    /\ \/ user_input.t = "int"
       \/ user_input.t = "str" /\ IsDigitStr(user_input.s)
       \/ ColonCall /\ ColonStart <= ColonEnd /\ ColonStep # 0
       \/ /\ SeparatorFormCall
          /\ DigitsValue(SeparatorParts[1]) <= DigitsValue(SeparatorParts[2])

\* the number, or the start of the range
BoundedFirst ==
    IF user_input.t = "int" THEN user_input.n
    ELSE IF IsDigitStr(user_input.s) THEN DigitsValue(user_input.s)
    ELSE IF ColonCall THEN ColonStart
    ELSE DigitsValue(SeparatorParts[1])

\* the number, or the end of the range
BoundedLast ==
    IF user_input.t = "int" THEN user_input.n
    ELSE IF IsDigitStr(user_input.s) THEN DigitsValue(user_input.s)
    ELSE IF ColonCall THEN ColonEnd
    ELSE DigitsValue(SeparatorParts[2])

OutsideDefaultRange(v) == v < default_range[1] \/ v > default_range[2]

\* the keyword "all" occurs in the input
RECURSIVE HasKeyword(_)
HasKeyword(x) ==
    IF x.t = "str" THEN Contains(x.s, S_all)
    ELSE IF x.t = "list" THEN \E i \in 1..Len(x.l) : HasKeyword(x.l[i])
    ELSE FALSE

\* C14: for an integer, a string of digits, a colon range and a separator
\* range the call returns without an error, a number outside the default
\* range is still in the result (parse(n) = [n] for every integer n), and
\* there is a warning if and only if the number, or the start or the end
\* of the range, is outside the default range; the list returned for an
\* input without the keyword "all" does not depend on the default range
C14_DefaultRangeOnlyWarns ==
    /\ BoundedCall =>
          /\ parse_pc = "returned"
          /\ parse_ret.errors = 0
          /\ (parse_ret.warnings >= 1) <=>
                (OutsideDefaultRange(BoundedFirst) \/ OutsideDefaultRange(BoundedLast))
          /\ user_input.t = "int" => parse_ret.result = <<user_input.n>>
          /\ (user_input.t = "str" /\ IsDigitStr(user_input.s)) =>
                parse_ret.result = <<DigitsValue(user_input.s)>>
    /\ (parse_pc = "returned" /\ ~HasKeyword(user_input)) =>
          parse_ret.result = ParseUserInput(user_input, <<0, 127>>, "-").result

----------------------------------------------------------------------------
(* The payload of a dispatch.                                              *)

Abs(x) == IF x < 0 THEN 0 - x ELSE x

Least(a, b) == IF a < b THEN a ELSE b

Greatest(a, b) == IF a < b THEN b ELSE a

\* the bounds of the mapping
MappingLow == payload_in.mapping.l[1].n

MappingHigh == payload_in.mapping.l[2].n

PlaceholderAt(i) ==
    IF OccursAt(S_VELOCITY, payload_in.command, i)
    THEN [len |-> Len(S_VELOCITY), text |-> IntStr(payload_in.value)]
    ELSE IF OccursAt(S_VALUE, payload_in.command, i)
    THEN [len |-> Len(S_VALUE), text |-> IntStr(payload_in.value)]
    ELSE IF OccursAt(S_PERCENTAGE, payload_in.command, i)
    THEN [len |-> Len(S_PERCENTAGE), text |-> IntStr(payload_out.percentage)]
    ELSE IF OccursAt(S_DECIMAL, payload_in.command, i)
    THEN [len |-> Len(S_DECIMAL),
          text |-> DecimalOf(payload_in.mapping, payload_in.value)]
    ELSE [len |-> 0, text |-> <<>>]

\* one pass over the template from position i on, from left to right
RECURSIVE OnePass(_)
OnePass(i) ==
    IF i > Len(payload_in.command) THEN <<>>
    ELSE IF PlaceholderAt(i).len > 0
    THEN PlaceholderAt(i).text \o OnePass(i + PlaceholderAt(i).len)
    ELSE <<payload_in.command[i]>> \o OnePass(i + 1)

\* C16: the command launched is the template with every $VALUE and every
\* $VELOCITY replaced by the derived value, every $PERCENTAGE by the
\* percentage and every $DECIMAL by the decimal, as one pass from left to
\* right over the template gives it, the text outside the placeholders
\* unchanged; none of the four placeholders is left in it
C16_OnePassSubstitution ==
    payload_pc = "done" =>
        /\ payload_out.command = OnePass(1)
        /\ \A token \in {S_VALUE, S_VELOCITY, S_PERCENTAGE, S_DECIMAL} :
             ~Contains(payload_out.command, token)

\* a template with $VELOCITY, $PERCENTAGE and $VALUE, text between them,
\* and the value 100
C16_Witness ==
    /\ payload_pc = "done"
    /\ payload_in.value = 100
    /\ payload_in.command =
          <<"a">> \o S_VELOCITY \o <<"b">> \o S_PERCENTAGE \o <<"%", " ">> \o S_VALUE
    /\ payload_out.command =
          <<"a", "1", "0", "0", "b", "7", "9", "%", " ", "1", "0", "0">>

\* ---------------------------------------------------------------------
\* Dispatch and the launched command (claim C17)

\* how many commands the engine has launched
Launched == Len(SelectSeq(calls, LAMBDA c : c.how = "dispatch"))

\* a launched command has not ended yet
Running == Launched > completed

\* the engine is inside subprocess.run and takes no step of its own
EngineBlocked == pc = "wait"

\* a later rule, or a message on a port, is waiting for the engine
WorkLeft ==
    \/ cmd_idx < Len(commands)
    \/ \E i \in 1..Len(pending) : pending[i] # <<>>

\* C17 as the specification states it: once a command is dispatched the
\* engine goes on without waiting for it, so a command that has not ended
\* never holds the engine back.
C17_DispatchDoesNotWait == Running => ~EngineBlocked

\* C17 as the code has it: while a launched command has not ended, the engine
\* evaluates no rule and takes no message from a port; messages that arrive
\* meanwhile are only queued.
C17_EngineWaitsForCommand ==
    [][Running =>
          /\ calls' = calls
          /\ message' = message
          /\ Len(pending') = Len(pending)
          /\ \A i \in 1..Len(pending) : Len(pending'[i]) >= Len(pending[i])]_vars

\* a command is running while a later rule and a message are waiting
C17_Witness ==
    /\ Running
    /\ cmd_idx < Len(commands)
    /\ \E i \in 1..Len(pending) : pending[i] # <<>>

\* ---------------------------------------------------------------------
\* Evaluation leaves the rules alone (claim C18)

\* the rule list as MIDILauncher.__init__ built it from the configuration
AsConstructed ==
    LET tables == Tables(config)
    IN  [i \in 1..Len(tables) |-> CommandInit(tables[i]).cmd]

\* calls j and k evaluate the same rule for equal messages from the same port
SameRuleSameEvent(j, k) ==
    /\ calls[j].rule = calls[k].rule
    /\ sent[calls[j].event] = sent[calls[k].event]

\* the calls of execute so far that evaluated the same rule for equal
\* messages from the same port ended the same way with the same command line
SameOutcomes ==
    \A j, k \in 1..Len(calls) :
        SameRuleSameEvent(j, k) =>
            /\ calls[j].how = calls[k].how
            /\ calls[j].raised = calls[k].raised
            /\ calls[j].command = calls[k].command

\* C18: evaluation is stateless and leaves the rules unchanged: no step of
\* the running engine, a call of execute that matches or one that does not,
\* changes a field of a rule, the rule list or its order, and a rule
\* evaluated again for an equal message from the same port ends the same
\* way with the same command line, whatever was processed in between.
C18_EvaluationIsStateless ==
    [][Started => (commands' = commands /\ SameOutcomes')]_vars

\* a rule has dispatched for a message and again for an equal later message
C18_Witness ==
    \E j, k \in 1..Len(calls) :
        /\ calls[j].event < calls[k].event
        /\ SameRuleSameEvent(j, k)
        /\ calls[j].how = "dispatch"
        /\ calls[k].how = "dispatch"
        /\ commands = AsConstructed

\* ---------------------------------------------------------------------
\* Validation and comparison of the event kind (claim C19)

\* the kind a rule was accepted for at construction (line 415)
AcceptedKind(r) == Lower(r.event.s)

\* rule r was accepted at construction: active, with a command, a mapping
\* of two numbers and one of the three kinds in some spelling
Accepted(r) ==
    /\ r.active
    /\ r.command.t = "str"
    /\ r.mapping.t = "list"
    /\ Len(r.mapping.l) = 2
    /\ \A i \in 1..2 : IsNumber(r.mapping.l[i])
    /\ r.event.t = "str"
    /\ AcceptedKind(r) \in ValidEvents

\* event msg is of the kind rule r was accepted for and satisfies its port,
\* channel, note/control and velocity/value predicates
Satisfies(r, msg, port_name) ==
    /\ AcceptedKind(r) = msg.type
    /\ SourceMatches(r, port_name)
    /\ Selected(msg.channel + 1, r.channels)
    /\ \/ /\ AcceptedKind(r) \in {S_note_on, S_note_off}
          /\ Selected(msg.note, r.note)
          /\ Selected(msg.velocity, r.velocities)
       \/ /\ AcceptedKind(r) = S_control_change
          /\ Selected(msg.control, r.control)
          /\ Selected(msg.value, r.values)

\* C19: validation at construction and comparison at matching agree: a rule
\* accepted at construction, in whatever spelling of its event kind,
\* dispatches for every event of that kind that satisfies its port, channel,
\* note/control and velocity/value predicates.
C19_AcceptedKindDispatches ==
    (/\ rule_pc = "executed"
     /\ Accepted(rule)
     /\ Satisfies(rule, rule_message.message, rule_message.port_name))
        => rule_outcome.how = "dispatch"

\* ---------------------------------------------------------------------
\* The renewal of the port list (claim C20)

\* the seconds between the last two checks of the attached ports
SinceCheckBefore == check_times[2] - check_times[1]

\* C20: the list of input ports is renewed every 5 seconds: a check of the
\* attached ports follows the check before it by more than 5 seconds,
\* whether or not that one found the ports changed; and no iteration of the
\* loop, one whose check fails with InvalidPortError included, goes to the
\* next one without polling the open ports and sleeping.
C20_PortsRenewedEveryFiveSeconds ==
    /\ check_times[1] >= 0 => SinceCheckBefore > RenewInterval
    /\ last_iteration # "skipped"

====
